---------------------------- MODULE Spec2Model ----------------------------
(***************************************************************************)
(* Places API (fuatumulu/maps-api): the streaming export's connection      *)
(* lifecycle over the shared pool (src/src/database.js, routes/places.js), *)
(* the WHERE-clause builder and the three statements built on it, the      *)
(* pagination parser and the paginated response, the middleware chain of   *)
(* the application (limiter, authenticate, routes) and start()             *)
(* (src/unnamed/part_000).                                                 *)
(*                                                                         *)
(* The row source (mysql2's query(...).stream()) and the pool are outside  *)
(* the repository.  They are modelled by the contract of a Node.js         *)
(* Readable: any number of 'data' events, then at most one of 'end' or     *)
(* 'error'; after destroy() without an error argument neither 'end' nor    *)
(* 'error' is emitted.                                                     *)
(***************************************************************************)
EXTENDS Integers, Sequences, FiniteSets, TLC

\* ------------------------------------------------------------------ bounds
\* Concurrent /stream requests.
MaxStreams == 2
\* Rows the cursor of one stream can deliver.
MaxRows == 2
\* Concurrent buffered (list/count) queries.
MaxQueries == 1
\* Pool capacity (connectionLimit, database.js:14, is 20; scaled down).
MaxConnections == 1

\* Keys one request's query string holds.
MaxKeys == 2
\* Length of the string handed to parseLimit.
MaxLen == 6

Streams == 1..MaxStreams
Queries == 1..MaxQueries

VARIABLES
  free,          \* pool: connections not checked out
  pc,            \* per stream: position of the /stream handler
  src,           \* per stream: state of the row source (Readable)
  sent,          \* per stream: rows the row source has emitted
  count,         \* per stream: the handler's counter (places.js:117)
  out,           \* per stream: records handed to res.write / res.json
  endedAt,       \* per stream: Len(out) when res.end() ran, -1 before
  released,      \* per stream: calls of connection.release()
  clientClosed,  \* per stream: req 'close' has fired
  closedAt,      \* per stream: Len(out) when req 'close' fired, -1 before
  flushed,       \* per stream: records of out the transport has accepted
  qpc,           \* per buffered query: idle / queued / running / done
  query,         \* one request: req.query (or the argument of a direct call)
  fpc,           \* one request: position of its handler
  issued,        \* one request: statements handed to the store, in order
  status,        \* one request: HTTP status answered, 0 before
  built,         \* result of a direct buildWhereClause(query) call
  limitStr,      \* argument of a parseLimit call
  limitDone,     \* the call has returned
  limitResult,   \* its result, 0 before the call
  pgTotal,       \* paginated list: rows of the store that match the filters
  pgLimitStr,    \* paginated list: req.query.limit
  pgOffsetStr,   \* paginated list: req.query.offset
  ppc,           \* paginated list: position of the GET / handler
  pgPlaces,      \* paginated list: places.length once getPlaces resolved
  pgResp,        \* paginated list: status and pagination object answered
  apiToken,      \* process.env.API_TOKEN as read at load (database.js:240)
  rateMax,       \* the limiter's max (part_000:25)
  hits,          \* requests the limiter counted in the current window
  apc,           \* one HTTP request: position in the middleware chain
  reqPath,       \* one HTTP request: path segments
  reqAuth,       \* one HTTP request: req.headers.authorization
  aStatus,       \* one HTTP request: status answered, 0 before
  aStore,        \* one HTTP request: a store operation was started for it
  aHandler,      \* one HTTP request: handler that took it, "none" before
  dbUp,          \* startup: the store answers SELECT 1 right now
  retries,       \* startup: `retries` of start() (part_000:106)
  dbConnected,   \* startup: `dbConnected` of start() (part_000:105)
  spc,           \* startup: position of start()
  tests,         \* startup: calls of db.testConnection() made by start()
  listening,     \* startup: app.listen() has been called
  exitCode,      \* startup: status of process.exit(), -1 while running
  answered,      \* startup: connections the listener accepted
  refused        \* startup: connection attempts while nothing listens

streamVars ==
  <<free, pc, src, sent, count, out, endedAt, released, clientClosed, closedAt,
    flushed, qpc>>
filterVars == <<query, fpc, issued, status, built>>
limitVars == <<limitStr, limitDone, limitResult>>

pageVars == <<pgTotal, pgLimitStr, pgOffsetStr, ppc, pgPlaces, pgResp>>

authVars == <<apiToken, rateMax, hits, apc, reqPath, reqAuth, aStatus, aStore, aHandler>>

startVars == <<dbUp, retries, dbConnected, spc, tests, listening, exitCode, answered, refused>>

vars == <<streamVars, filterVars, limitVars, pageVars, authVars, startVars>>

\* ------------------------------------------------------- JavaScript values
\* A string is its sequence of characters.  An optional value is <<>> for
\* undefined and <<s>> for the string s.  An object is a function from the
\* keys it holds.
Undefined == <<>>
Some(s) == <<s>>
Get(obj, k) == IF k \in DOMAIN obj THEN Some(obj[k]) ELSE Undefined

\* A number: NaN, or v / 10^scale.
NaN == [nan |-> TRUE, v |-> 0, scale |-> 0]
Number(v, k) == [nan |-> FALSE, v |-> v, scale |-> k]

\* ToBoolean.
TruthyString(x) == x # Undefined /\ x[1] # <<>>
TruthyNumber(n) == ~n.nan /\ n.v # 0

Digits == {"0", "1", "2", "3", "4", "5", "6", "7", "8", "9"}
DigitVal(c) ==
  CASE c = "0" -> 0 [] c = "1" -> 1 [] c = "2" -> 2 [] c = "3" -> 3
    [] c = "4" -> 4 [] c = "5" -> 5 [] c = "6" -> 6 [] c = "7" -> 7
    [] c = "8" -> 8 [] c = "9" -> 9

RECURSIVE SkipWhite(_, _)
SkipWhite(s, i) ==
  IF i <= Len(s) /\ s[i] = " " THEN SkipWhite(s, i + 1) ELSE i

\* Length of the run of digits of s that starts at position i.
RECURSIVE DigitRun(_, _)
DigitRun(s, i) ==
  IF i <= Len(s) /\ s[i] \in Digits THEN 1 + DigitRun(s, i + 1) ELSE 0

\* Value of the n digits of s that start at position i.
RECURSIVE DigitsValue(_, _, _)
DigitsValue(s, i, n) ==
  IF n = 0 THEN 0 ELSE DigitsValue(s, i, n - 1) * 10 + DigitVal(s[i + n - 1])

RECURSIVE Pow10(_)
Pow10(k) == IF k = 0 THEN 1 ELSE 10 * Pow10(k - 1)

\* v / 10^k without trailing zeros in the fraction.
RECURSIVE Normalize(_, _)
Normalize(v, k) ==
  IF k > 0 /\ v % 10 = 0 THEN Normalize(v \div 10, k - 1) ELSE Number(v, k)

\* parseInt(x) with no radix, for strings without a 0x prefix: leading white
\* space, an optional sign, the longest run of digits; NaN when there is no
\* digit, and for undefined.
ParseInt(x) ==
  IF x = Undefined THEN NaN
  ELSE LET s == x[1]
           i == SkipWhite(s, 1)
           signed == i <= Len(s) /\ s[i] \in {"-", "+"}
           sign == IF signed /\ s[i] = "-" THEN -1 ELSE 1
           j == IF signed THEN i + 1 ELSE i
           n == DigitRun(s, j)
       IN IF n = 0 THEN NaN ELSE Number(sign * DigitsValue(s, j, n), 0)

\* parseFloat(x) for strings without exponent or "Infinity": digits, an
\* optional point and digits; NaN when there is no digit on either side.
ParseFloat(x) ==
  IF x = Undefined THEN NaN
  ELSE LET s == x[1]
           i == SkipWhite(s, 1)
           signed == i <= Len(s) /\ s[i] \in {"-", "+"}
           sign == IF signed /\ s[i] = "-" THEN -1 ELSE 1
           j == IF signed THEN i + 1 ELSE i
           n1 == DigitRun(s, j)
           dot == j + n1 <= Len(s) /\ s[j + n1] = "."
           n2 == IF dot THEN DigitRun(s, j + n1 + 1) ELSE 0
       IN IF n1 = 0 /\ n2 = 0 THEN NaN
          ELSE Normalize(sign * (DigitsValue(s, j, n1) * Pow10(n2)
                                  + DigitsValue(s, j + n1 + 1, n2)), n2)

Min(a, b) == IF a < b THEN a ELSE b
Max(a, b) == IF a > b THEN a ELSE b

\* --------------------------------------------------------- SQL text, params
\* Statement text is a sequence of tokens: a literal fragment of the source,
\* a value spliced into the text, or a number printed into it.
Lit(s) == [lit |-> s, val |-> <<>>, num |-> 0]
Splice(v) == [lit |-> "'", val |-> v, num |-> 0]
Printed(n) == [lit |-> "#", val |-> <<>>, num |-> n]

\* Bound parameters.
StrParam(s) == [kind |-> "string", str |-> s, num |-> Number(0, 0)]
NumParam(n) == [kind |-> "number", str |-> <<>>, num |-> n]

\* One entry of `conditions`: column, operator, right-hand side.
Condition(col, op) == [col |-> col, op |-> op, rhs |-> Lit("?")]

\* ---------------------------------------------------------- database.js
\* database.js:49
equalityFields ==
  <<"city", "state", "type", "county_code", "county", "borough", "place_id">>

EmptyClause == [conditions |-> <<>>, params |-> <<>>]

\* Variant of PushEquality: the value is spliced into the condition text.
PushEqualitySpliced(acc, filters, field) ==
  IF TruthyString(Get(filters, field))
  THEN [conditions |-> Append(acc.conditions,
                              [col |-> field, op |-> "=", rhs |-> Splice(filters[field])]),
        params |-> Append(acc.params, StrParam(filters[field]))]
  ELSE acc

\* database.js:52-55
PushEquality(acc, filters, field) ==
  IF TruthyString(Get(filters, field))
  THEN [conditions |-> Append(acc.conditions, Condition(field, "=")),
        params |-> Append(acc.params, StrParam(filters[field]))]
  ELSE acc

\* database.js:51-56
RECURSIVE EqualityLoop(_, _, _)
EqualityLoop(acc, filters, i) ==
  IF i > Len(equalityFields) THEN acc
  ELSE EqualityLoop(PushEquality(acc, filters, equalityFields[i]), filters, i + 1)

\* Variant of PushInt: the parameter is pushed only when it parsed.
PushIntSkipNaN(acc, filters, key, col, op) ==
  IF Get(filters, key) # Undefined
  THEN [conditions |-> Append(acc.conditions, Condition(col, op)),
        params |-> IF ParseInt(Get(filters, key)).nan THEN acc.params
                   ELSE Append(acc.params, NumParam(ParseInt(Get(filters, key))))]
  ELSE acc

\* database.js:59-70: if (filters[key] !== undefined) push(col op ?), push(parseInt)
PushInt(acc, filters, key, col, op) ==
  IF Get(filters, key) # Undefined
  THEN [conditions |-> Append(acc.conditions, Condition(col, op)),
        params |-> Append(acc.params, NumParam(ParseInt(Get(filters, key))))]
  ELSE acc

\* database.js:73-84: the same with parseFloat
PushFloat(acc, filters, key, col, op) ==
  IF Get(filters, key) # Undefined
  THEN [conditions |-> Append(acc.conditions, Condition(col, op)),
        params |-> Append(acc.params, NumParam(ParseFloat(Get(filters, key))))]
  ELSE acc

\* database.js:87-90
PushLike(acc, filters) ==
  IF TruthyString(Get(filters, "name_contains"))
  THEN [conditions |-> Append(acc.conditions, Condition("name", "LIKE")),
        params |-> Append(acc.params,
                          StrParam(<<"%">> \o filters["name_contains"] \o <<"%">>))]
  ELSE acc

\* conditions.join(' AND ')
RECURSIVE JoinAnd(_)
JoinAnd(conds) ==
  IF conds = <<>> THEN <<>>
  ELSE LET c == Head(conds)
           one == <<Lit(c.col), Lit(c.op), c.rhs>>
       IN IF Len(conds) = 1 THEN one
          ELSE one \o <<Lit("AND")>> \o JoinAnd(Tail(conds))

\* database.js:44-97
buildWhereClause(filters) ==
  LET a1 == EqualityLoop(EmptyClause, filters, 1)
      a2 == PushInt(a1, filters, "reviews", "reviews", "=")
      a3 == PushInt(a2, filters, "reviews_min", "reviews", ">=")
      a4 == PushInt(a3, filters, "reviews_max", "reviews", "<=")
      a5 == PushFloat(a4, filters, "rating", "rating", "=")
      a6 == PushFloat(a5, filters, "rating_min", "rating", ">=")
      a7 == PushFloat(a6, filters, "rating_max", "rating", "<=")
      a8 == PushLike(a7, filters)
  IN [whereClause |-> IF Len(a8.conditions) > 0
                        THEN <<Lit("WHERE")>> \o JoinAnd(a8.conditions)
                        ELSE <<>>,
      params |-> a8.params,
      conditions |-> a8.conditions]

Statement(kind, text, params, conditions) ==
  [kind |-> kind, text |-> text, params |-> params, conditions |-> conditions]

\* database.js:106-122; limit and offset are numbers.
getPlaces(filters, limit, offset) ==
  LET w == buildWhereClause(filters)
  IN Statement("rows",
               <<Lit("SELECT <19 columns> FROM places")>> \o w.whereClause
                 \o <<Lit("ORDER BY id"), Lit("LIMIT ? OFFSET ?")>>,
               w.params \o <<NumParam(limit), NumParam(offset)>>,
               w.conditions)

\* database.js:129-135
countPlaces(filters) ==
  LET w == buildWhereClause(filters)
  IN Statement("count",
               <<Lit("SELECT COUNT(*) as total FROM places")>> \o w.whereClause,
               w.params, w.conditions)

\* database.js:144-162; `limit > 0` is false for NaN.
streamPlaces(filters, limit) ==
  LET w == buildWhereClause(filters)
  IN Statement("stream",
               <<Lit("SELECT <19 columns> FROM places")>> \o w.whereClause
                 \o <<Lit("ORDER BY id")>>
                 \o (IF ~limit.nan /\ limit.v > 0
                       THEN <<Lit("LIMIT"), Printed(limit.v)>> ELSE <<>>),
               w.params, w.conditions)

\* ------------------------------------------------------- routes/places.js
MAX_LIMIT == 10000
DEFAULT_LIMIT == 100

\* Variant of parseLimit: the lower clamp is 0.
parseLimitClampZero(limitStr_) ==
  LET p == ParseInt(limitStr_)
      limit == IF TruthyNumber(p) THEN p.v ELSE DEFAULT_LIMIT
  IN Min(Max(0, limit), MAX_LIMIT)

\* places.js:12-15
parseLimit(limitStr_) ==
  LET p == ParseInt(limitStr_)
      limit == IF TruthyNumber(p) THEN p.v ELSE DEFAULT_LIMIT
  IN Min(Max(1, limit), MAX_LIMIT)

\* places.js:22-27
filterKeys ==
  <<"city", "state", "type", "country_code", "country", "borough", "place_id",
    "reviews", "reviews_min", "reviews_max",
    "rating", "rating_min", "rating_max",
    "name_contains">>

Range(seq) == {seq[i] : i \in DOMAIN seq}

\* Variant of extractFilters: every query parameter is passed on.
extractFiltersAll(q) == q

\* places.js:20-36
extractFilters(q) ==
  [k \in {key \in Range(filterKeys) : Get(q, key) # Undefined} |-> q[k]]

\* ----------------------------------------------------------------- records
RowLine(i) == [type |-> "row", n |-> i]
MetaLine(n) == [type |-> "_meta", n |-> n]
ErrorLine == [type |-> "_error", n |-> 0]
Envelope500 == [type |-> "500", n |-> 0]

\* ------------------------------------------------------------------- pool
\* connection.release(): the connection goes back to the pool.
Release(s) ==
  /\ released' = [released EXCEPT ![s] = @ + 1]
  /\ free' = free + 1

\* ----------------------------------------------------------------- stream
InitStream ==
  /\ free = MaxConnections
  /\ pc = [s \in Streams |-> "idle"]
  /\ src = [s \in Streams |-> "none"]
  /\ sent = [s \in Streams |-> 0]
  /\ count = [s \in Streams |-> 0]
  /\ out = [s \in Streams |-> <<>>]
  /\ endedAt = [s \in Streams |-> -1]
  /\ released = [s \in Streams |-> 0]
  /\ clientClosed = [s \in Streams |-> FALSE]
  /\ closedAt = [s \in Streams |-> -1]
  /\ flushed = [s \in Streams |-> 0]
  /\ qpc = [q \in Queries |-> "idle"]

\* GET /stream arrives; the handler runs up to `await pool.getConnection()`.
StreamRequest(s) ==
  /\ pc[s] = "idle"
  /\ pc' = [pc EXCEPT ![s] = "acquire"]
  /\ UNCHANGED <<free, src, sent, count, out, endedAt, released, clientClosed, qpc, closedAt, flushed, filterVars, limitVars, pageVars, authVars, startVars>>

\* getConnection resolves; streamPlaces issues the query and registers its
\* release handlers, then the route registers data/end/error/close handlers.
StreamAttach(s) ==
  /\ pc[s] = "acquire"
  /\ free > 0
  /\ free' = free - 1
  /\ pc' = [pc EXCEPT ![s] = "attached"]
  /\ src' = [src EXCEPT ![s] = "open"]
  /\ UNCHANGED <<sent, count, out, endedAt, released, clientClosed, qpc, closedAt, flushed, filterVars, limitVars, pageVars, authVars, startVars>>

\* getConnection rejects: the route's catch answers with the 500 envelope.
StreamReject(s) ==
  /\ pc[s] = "acquire"
  /\ pc' = [pc EXCEPT ![s] = "rejected"]
  /\ out' = [out EXCEPT ![s] = Append(@, Envelope500)]
  /\ endedAt' = [endedAt EXCEPT ![s] = Len(out[s]) + 1]
  /\ UNCHANGED <<free, src, sent, count, released, clientClosed, qpc, closedAt, flushed, filterVars, limitVars, pageVars, authVars, startVars>>

\* Variant of OnData: the row is written but not counted.
OnDataNoCount(s) ==
  /\ count' = count
  /\ out' = [out EXCEPT ![s] = Append(@, RowLine(sent[s] + 1))]

\* stream.on('data'): count++, res.write(row).
OnData(s) ==
  /\ count' = [count EXCEPT ![s] = @ + 1]
  /\ out' = [out EXCEPT ![s] = Append(@, RowLine(sent[s] + 1))]

StreamData(s) ==
  /\ src[s] = "open"
  /\ sent[s] < MaxRows
  /\ sent' = [sent EXCEPT ![s] = @ + 1]
  /\ OnData(s)
  /\ UNCHANGED <<free, pc, src, endedAt, released, clientClosed, qpc, closedAt, flushed, filterVars, limitVars, pageVars, authVars, startVars>>

\* Listeners of 'end' in registration order: database.js:165 releases, then
\* places.js:124 writes the trailer and ends the response.
OnEnd(s) ==
  /\ Release(s)
  /\ out' = [out EXCEPT ![s] = Append(@, MetaLine(count[s]))]
  /\ endedAt' = [endedAt EXCEPT ![s] = Len(out[s]) + 1]

StreamEnd(s) ==
  /\ src[s] = "open"
  /\ src' = [src EXCEPT ![s] = "ended"]
  /\ OnEnd(s)
  /\ UNCHANGED <<pc, sent, count, clientClosed, qpc, closedAt, flushed, filterVars, limitVars, pageVars, authVars, startVars>>

\* Variant of OnError: the release listener of 'error' is missing.
OnErrorNoRelease(s) ==
  /\ UNCHANGED <<released, free, filterVars, limitVars, pageVars, authVars, startVars>>
  /\ out' = [out EXCEPT ![s] = Append(@, ErrorLine)]
  /\ endedAt' = [endedAt EXCEPT ![s] = Len(out[s]) + 1]

\* Listeners of 'error': database.js:166 releases, then places.js:130 writes
\* the _error record and ends the response.
OnError(s) ==
  /\ Release(s)
  /\ out' = [out EXCEPT ![s] = Append(@, ErrorLine)]
  /\ endedAt' = [endedAt EXCEPT ![s] = Len(out[s]) + 1]

StreamError(s) ==
  /\ src[s] = "open"
  /\ src' = [src EXCEPT ![s] = "errored"]
  /\ OnError(s)
  /\ UNCHANGED <<pc, sent, count, clientClosed, qpc, closedAt, flushed, filterVars, limitVars, pageVars, authVars, startVars>>

\* req.on('close', () => stream.destroy()): registered only once the handler
\* has passed its await; destroy() of a finished stream does nothing, and
\* destroy() of an open one emits neither 'end' nor 'error'.
OnClose(s) ==
  src' = [src EXCEPT ![s] =
            IF pc[s] = "attached" /\ @ = "open" THEN "destroyed" ELSE @]

ClientClose(s) ==
  /\ pc[s] # "idle"
  /\ ~clientClosed[s]
  /\ clientClosed' = [clientClosed EXCEPT ![s] = TRUE]
  /\ closedAt' = [closedAt EXCEPT ![s] = Len(out[s])]
  /\ OnClose(s)
  /\ UNCHANGED <<free, pc, sent, count, out, endedAt, released, qpc, flushed, filterVars, limitVars, pageVars, authVars, startVars>>

\* The output transport accepts the oldest record res.write() buffered
\* (places.js:121: the return value of res.write is not read and the row
\* source is never paused, so 'data' does not wait for this).
Drain(s) ==
  /\ ~clientClosed[s]
  /\ flushed[s] < Len(out[s])
  /\ flushed' = [flushed EXCEPT ![s] = @ + 1]
  /\ UNCHANGED <<free, pc, src, sent, count, out, endedAt, released, clientClosed, closedAt, qpc, filterVars, limitVars, pageVars, authVars, startVars>>

\* ------------------------------------------------- buffered list / count
\* query(): pool.execute checks a connection out for one round trip.
QueryRequest(q) ==
  /\ qpc[q] = "idle"
  /\ qpc' = [qpc EXCEPT ![q] = "queued"]
  /\ UNCHANGED <<free, pc, src, sent, count, out, endedAt, released, clientClosed, closedAt, flushed, filterVars, limitVars, pageVars, authVars, startVars>>

QueryStart(q) ==
  /\ qpc[q] = "queued"
  /\ free > 0
  /\ free' = free - 1
  /\ qpc' = [qpc EXCEPT ![q] = "running"]
  /\ UNCHANGED <<pc, src, sent, count, out, endedAt, released, clientClosed, closedAt, flushed, filterVars, limitVars, pageVars, authVars, startVars>>

QueryFinish(q) ==
  /\ qpc[q] = "running"
  /\ free' = free + 1
  /\ qpc' = [qpc EXCEPT ![q] = "done"]
  /\ UNCHANGED <<pc, src, sent, count, out, endedAt, released, clientClosed, closedAt, flushed, filterVars, limitVars, pageVars, authVars, startVars>>

NextStream ==
  \/ \E s \in Streams : StreamRequest(s)
  \/ \E s \in Streams : StreamAttach(s)
  \/ \E s \in Streams : StreamReject(s)
  \/ \E s \in Streams : StreamData(s)
  \/ \E s \in Streams : StreamEnd(s)
  \/ \E s \in Streams : StreamError(s)
  \/ \E s \in Streams : ClientClose(s)
  \/ \E q \in Queries : QueryRequest(q)
  \/ \E q \in Queries : QueryStart(q)
  \/ \E q \in Queries : QueryFinish(q)

\* The same, with the output transport accepting records at its own pace.
NextFlow ==
  \/ NextStream
  \/ \E s \in Streams : Drain(s)

\* ------------------------------------------------------ streaming claims
Terminal(s) == src[s] \in {"ended", "errored", "destroyed"}

\* The records a stream has written when n rows were delivered and `last`
\* closed the output.
RowsThen(n, last) == [i \in 1..(n + 1) |-> IF i <= n THEN RowLine(i) ELSE last]

\* C1: a stream that acquired its connection releases it at most once, and
\* exactly once when it has reached a terminal state (exhausted, errored, or
\* cancelled by client disconnect).
C1_ReleasedExactlyOnce ==
  \A s \in Streams :
    /\ released[s] <= 1
    /\ Terminal(s) => released[s] = 1

\* C2: cancelled streams give their connections back, so the pool is never
\* left with no free connection and no live holder that could return one.
C2_PoolNeverPermanentlyExhausted ==
  free = 0 =>
    \/ \E s \in Streams : src[s] = "open"
    \/ \E q \in Queries : qpc[q] = "running"

\* C3: when the row source is exhausted without error the output is one data
\* line per delivered row, then one trailer whose total_streamed is the
\* number of data lines, and the response is ended right after the trailer.
C3_CompleteOutput ==
  \A s \in Streams :
    src[s] = "ended" =>
      /\ out[s] = RowsThen(sent[s], MetaLine(sent[s]))
      /\ endedAt[s] = Len(out[s])

C3_Witness ==
  /\ \E s \in Streams : src[s] = "ended" /\ sent[s] = 0 /\ out[s] = <<MetaLine(0)>>
  /\ \E s \in Streams : src[s] = "ended" /\ sent[s] = MaxRows

\* C4: when the row source fails after N rows the output is those N data
\* lines, then one _error record, the response is ended, and the connection
\* has been released exactly once.
C4_FailedOutput ==
  \A s \in Streams :
    src[s] = "errored" =>
      /\ out[s] = RowsThen(sent[s], ErrorLine)
      /\ endedAt[s] = Len(out[s])
      /\ released[s] = 1

C4_Witness ==
  \E s \in Streams : src[s] = "errored" /\ sent[s] >= 1 /\ clientClosed[s]

\* Rows the row source has emitted that the transport has not yet accepted
\* (rows precede the terminal record in out).
RowsInFlight(s) == sent[s] - Min(flushed[s], sent[s])

\* C13: while the client is connected, the rows taken from the row source but
\* not yet accepted by the output transport never number more than one,
\* however slow the transport is.
C13_AtMostOneRowInFlight ==
  \A s \in Streams : ~clientClosed[s] => RowsInFlight(s) <= 1

TerminalRecords(s) ==
  {i \in DOMAIN out[s] : out[s][i].type \in {"_meta", "_error"}}

\* C15: under every interleaving of data/end/error with the client's close,
\* a stream writes at most one terminal record (_meta or _error), nothing
\* after res.end(), and nothing after the client has disconnected.
C15_OneTerminalNoWriteAfterClose ==
  \A s \in Streams :
    /\ Cardinality(TerminalRecords(s)) <= 1
    /\ endedAt[s] >= 0 => Len(out[s]) = endedAt[s]
    /\ clientClosed[s] => Len(out[s]) = closedAt[s]

\* ------------------------------------------------------- request handlers
\* Keys a query string is drawn from: the route's filter keys, the builder's
\* own equality fields, pagination, and a key nothing knows.
FilterKeySet == Range(filterKeys)

AllKeys == FilterKeySet \cup Range(equalityFields) \cup {"limit", "offset", "sort"}

\* Values a query parameter is drawn from: empty, text with a quote in it,
\* a decimal number.
Values == {<<>>, <<"a", "'">>, <<"4", ".", "5">>}

\* Keys whose value is parsed as a number somewhere.
NumericKeys ==
  {"reviews", "reviews_min", "reviews_max", "rating", "rating_min", "rating_max",
   "limit", "offset"}

\* The values a request is given for key k: the keys that are only compared
\* or copied get no number.
ValuesOf(k) == IF k \in NumericKeys THEN Values ELSE Values \ {<<"4", ".", "5">>}

\* The objects with the keys D.
Objects(D) == {q \in [D -> Values] : \A k \in D : q[k] \in ValuesOf(k)}

RECURSIVE KeySets(_)
KeySets(k) ==
  IF k = 0 THEN {{}}
  ELSE LET smaller == KeySets(k - 1)
       IN smaller \cup {D \cup {x} : D \in smaller, x \in AllKeys}

\* No paginated request yet.
NoResponse == [status |-> 0, limit |-> 0, offset |-> 0, count |-> 0, total |-> 0,
               has_more |-> FALSE]

RestPage ==
  /\ pgTotal = 0
  /\ pgLimitStr = Undefined
  /\ pgOffsetStr = Undefined
  /\ ppc = "new"
  /\ pgPlaces = 0
  /\ pgResp = NoResponse

RestAuth ==
  /\ apiToken = Undefined
  /\ rateMax = 1
  /\ hits = 0
  /\ apc = "idle"
  /\ reqPath = <<>>
  /\ reqAuth = Undefined
  /\ aStatus = 0
  /\ aStore = FALSE
  /\ aHandler = "none"

RestStart ==
  /\ dbUp = TRUE
  /\ retries = 0
  /\ dbConnected = FALSE
  /\ spc = "none"
  /\ tests = 0
  /\ listening = FALSE
  /\ exitCode = -1
  /\ answered = 0
  /\ refused = 0

RestFilter ==
  /\ query = <<>>
  /\ fpc = "new"
  /\ issued = <<>>
  /\ status = 0
  /\ built = buildWhereClause(<<>>)

RestLimit ==
  /\ limitStr = Undefined
  /\ limitDone = FALSE
  /\ limitResult = 0

InitFilter ==
  /\ InitStream /\ RestLimit /\ RestPage /\ RestAuth /\ RestStart
  /\ \E D \in KeySets(MaxKeys) : query \in Objects(D)
  /\ fpc = "new"
  /\ issued = <<>>
  /\ status = 0
  /\ built = buildWhereClause(<<>>)

\* places.js:46: parseInt(req.query.offset) || 0
parseOffset(x) ==
  LET p == ParseInt(x) IN IF TruthyNumber(p) THEN p ELSE Number(0, 0)

\* places.js:109: req.query.limit ? parseInt(req.query.limit) : 0
streamLimit(x) == IF TruthyString(x) THEN ParseInt(x) ELSE Number(0, 0)

\* The statement each route hands to the store for req.query = q.
\* places.js:44-48
ListRowsStatement(q) ==
  getPlaces(extractFilters(q), Number(parseLimit(Get(q, "limit")), 0),
            parseOffset(Get(q, "offset")))

\* places.js:44,51 and 81-82
CountStatement(q) == countPlaces(extractFilters(q))

\* places.js:108-116
StreamStatement(q) == streamPlaces(extractFilters(q), streamLimit(Get(q, "limit")))

RouteStatement(kind, q) ==
  CASE kind = "rows" -> ListRowsStatement(q)
    [] kind = "count" -> CountStatement(q)
    [] kind = "stream" -> StreamStatement(q)

\* GET /: up to `await db.getPlaces(...)`.
ListGetPlaces ==
  /\ fpc = "new"
  /\ issued' = Append(issued, ListRowsStatement(query))
  /\ fpc' = "list:getPlaces"
  /\ UNCHANGED <<query, status, built, streamVars, limitVars, pageVars, authVars, startVars>>

\* GET /: getPlaces resolved, up to `await db.countPlaces(filters)`.
ListCountPlaces ==
  /\ fpc = "list:getPlaces"
  /\ issued' = Append(issued, CountStatement(query))
  /\ fpc' = "list:countPlaces"
  /\ UNCHANGED <<query, status, built, streamVars, limitVars, pageVars, authVars, startVars>>

\* GET /: res.json({success: true, ...}).
ListRespond ==
  /\ fpc = "list:countPlaces"
  /\ status' = 200
  /\ fpc' = "done"
  /\ UNCHANGED <<query, issued, built, streamVars, limitVars, pageVars, authVars, startVars>>

\* GET /count: up to `await db.countPlaces(filters)`.
CountCountPlaces ==
  /\ fpc = "new"
  /\ issued' = Append(issued, CountStatement(query))
  /\ fpc' = "count:countPlaces"
  /\ UNCHANGED <<query, status, built, streamVars, limitVars, pageVars, authVars, startVars>>

\* GET /count: res.json({success: true, ...}).
CountRespond ==
  /\ fpc = "count:countPlaces"
  /\ status' = 200
  /\ fpc' = "done"
  /\ UNCHANGED <<query, issued, built, streamVars, limitVars, pageVars, authVars, startVars>>

\* The store rejects a buffered statement: the route's catch answers 500.
StoreError ==
  /\ fpc \in {"list:getPlaces", "list:countPlaces", "count:countPlaces"}
  /\ status' = 500
  /\ fpc' = "done"
  /\ UNCHANGED <<query, issued, built, streamVars, limitVars, pageVars, authVars, startVars>>

\* GET /stream: streamPlaces has its connection and issues the statement.
StreamQuery ==
  /\ fpc = "new"
  /\ issued' = Append(issued, StreamStatement(query))
  /\ fpc' = "stream:attached"
  /\ UNCHANGED <<query, status, built, streamVars, limitVars, pageVars, authVars, startVars>>

\* GET /stream: the first res.write / res.end sends the 200 header.
StreamHeader ==
  /\ fpc = "stream:attached"
  /\ status' = 200
  /\ fpc' = "done"
  /\ UNCHANGED <<query, issued, built, streamVars, limitVars, pageVars, authVars, startVars>>

\* A direct call of the exported buildWhereClause with `query` as filters.
BuildDirect ==
  /\ fpc = "new"
  /\ built' = buildWhereClause(query)
  /\ fpc' = "built"
  /\ UNCHANGED <<query, issued, status, streamVars, limitVars, pageVars, authVars, startVars>>

NextFilter ==
  \/ ListGetPlaces
  \/ ListCountPlaces
  \/ ListRespond
  \/ CountCountPlaces
  \/ CountRespond
  \/ StoreError
  \/ StreamQuery
  \/ StreamHeader
  \/ BuildDirect

\* ---------------------------------------------------------------- parseLimit
LimitAlphabet == {"-", "0", "1", "5", "9", "a"}

LimitInputs ==
  {Undefined} \cup
  {Some(s) : s \in UNION {[1..n -> LimitAlphabet] : n \in 0..MaxLen}}

InitLimit ==
  /\ InitStream /\ RestFilter /\ RestPage /\ RestAuth /\ RestStart
  /\ limitStr \in LimitInputs
  /\ limitDone = FALSE
  /\ limitResult = 0

CallParseLimit ==
  /\ ~limitDone
  /\ limitDone' = TRUE
  /\ limitResult' = parseLimit(limitStr)
  /\ UNCHANGED <<limitStr, streamVars, filterVars, pageVars, authVars, startVars>>

NextLimit == CallParseLimit

\* --------------------------------------------------------- filter claims
\* The mappings with q's keys, q's pagination, and for every other key a
\* value that is empty exactly when q's is.
Variants(q) ==
  {g \in [DOMAIN q -> Values] :
     \A k \in DOMAIN q :
       /\ (g[k] = <<>>) <=> (q[k] = <<>>)
       /\ k \in {"limit", "offset"} => g[k] = q[k]}

\* C5: filter values never reach the statement text: any mapping with the
\* same keys and the same emptiness of each value gives the same text, for
\* buildWhereClause and for the list, count and stream statements.
C5_ValuesOnlyBound ==
  \A g \in Variants(query) :
    /\ \A i \in DOMAIN issued :
         RouteStatement(issued[i].kind, g).text = issued[i].text
    /\ fpc = "built" => buildWhereClause(g).whereClause = built.whereClause

C5_Witness ==
  /\ fpc = "done"
  /\ Len(issued) = 2
  /\ Len(issued[1].conditions) = 2
  /\ query["city"] = <<"a", "'">>
  /\ \E g \in Variants(query) : g["city"] # query["city"]

\* q without the keys that are neither filter keys nor pagination.
Restrict(q) ==
  [k \in DOMAIN q \cap (Range(filterKeys) \cup {"limit", "offset"}) |-> q[k]]

\* C6: a query key that is not on the route's filter allow-list names no
\* predicate of an issued statement, and the statement (text and bound
\* parameters) is the one issued for the query without such keys.
C6_UnlistedKeysDropped ==
  \A i \in DOMAIN issued :
    /\ \A j \in DOMAIN issued[i].conditions :
         issued[i].conditions[j].col \notin DOMAIN query \ Range(filterKeys)
    /\ issued[i] = RouteStatement(issued[i].kind, Restrict(query))

C6_Witness ==
  /\ Len(issued) >= 1
  /\ "county" \in DOMAIN query /\ query["county"] = <<"a", "'">>
  /\ "city" \in DOMAIN query /\ query["city"] = <<"a", "'">>
  /\ Len(issued[1].conditions) = 1

\* The fixed order of the claim: key, column, operator, parser.
BuilderOrder ==
  << [key |-> "city", col |-> "city", op |-> "=", parse |-> "verbatim"],
     [key |-> "state", col |-> "state", op |-> "=", parse |-> "verbatim"],
     [key |-> "type", col |-> "type", op |-> "=", parse |-> "verbatim"],
     [key |-> "county_code", col |-> "county_code", op |-> "=", parse |-> "verbatim"],
     [key |-> "county", col |-> "county", op |-> "=", parse |-> "verbatim"],
     [key |-> "borough", col |-> "borough", op |-> "=", parse |-> "verbatim"],
     [key |-> "place_id", col |-> "place_id", op |-> "=", parse |-> "verbatim"],
     [key |-> "reviews", col |-> "reviews", op |-> "=", parse |-> "int"],
     [key |-> "reviews_min", col |-> "reviews", op |-> ">=", parse |-> "int"],
     [key |-> "reviews_max", col |-> "reviews", op |-> "<=", parse |-> "int"],
     [key |-> "rating", col |-> "rating", op |-> "=", parse |-> "float"],
     [key |-> "rating_min", col |-> "rating", op |-> ">=", parse |-> "float"],
     [key |-> "rating_max", col |-> "rating", op |-> "<=", parse |-> "float"],
     [key |-> "name_contains", col |-> "name", op |-> "LIKE", parse |-> "like"] >>

BuilderKeys == {BuilderOrder[i].key : i \in DOMAIN BuilderOrder}

\* Positions of BuilderOrder a condition can come from.
Ranks(c) == {r \in DOMAIN BuilderOrder :
               BuilderOrder[r].col = c.col /\ BuilderOrder[r].op = c.op}

\* The parameter that belongs to the predicate of position r.
ParamOf(r, filters) ==
  LET e == BuilderOrder[r]
      x == Get(filters, e.key)
  IN CASE e.parse = "verbatim" -> StrParam(x[1])
       [] e.parse = "int" -> NumParam(ParseInt(x))
       [] e.parse = "float" -> NumParam(ParseFloat(x))
       [] e.parse = "like" -> StrParam(<<"%">> \o x[1] \o <<"%">>)

\* C7: for a mapping of allow-listed keys, buildWhereClause gives as many
\* parameters as predicates, the predicates in the fixed order, and the i-th
\* parameter is the one of the i-th predicate's key.
C7_ParallelOrdered ==
  (fpc = "built" /\ DOMAIN query \subseteq BuilderKeys) =>
    /\ Len(built.params) = Len(built.conditions)
    /\ \A i \in DOMAIN built.conditions :
         \E r \in Ranks(built.conditions[i]) :
           /\ BuilderOrder[r].key \in DOMAIN query
           /\ i \in DOMAIN built.params
           /\ built.params[i] = ParamOf(r, query)
           /\ \A j \in DOMAIN built.conditions :
                i < j => \A r2 \in Ranks(built.conditions[j]) : r < r2

C7_Witness ==
  /\ fpc = "built"
  /\ DOMAIN query = {"reviews_min", "county"}
  /\ query["county"] # <<>>
  /\ Len(built.conditions) = 2
  /\ built.params[2].num.nan

\* The equality filters the HTTP layer documents and accepts.
HttpEqualityKeys ==
  {"city", "state", "type", "country_code", "country", "borough", "place_id"}

\* C8: every equality filter the HTTP layer accepts, given a non-empty
\* value, yields exactly one EQ predicate on that column in each issued
\* statement.
C8_HttpEqualityFiltersApplied ==
  \A i \in DOMAIN issued :
    \A k \in HttpEqualityKeys :
      TruthyString(Get(query, k)) =>
        Cardinality({j \in DOMAIN issued[i].conditions :
                       /\ issued[i].conditions[j].col = k
                       /\ issued[i].conditions[j].op = "="}) = 1

IntFilterKeys == {"reviews", "reviews_min", "reviews_max"}
FloatFilterKeys == {"rating", "rating_min", "rating_max"}

\* Some numeric filter of q has a value that does not parse as a number.
MalformedNumeric(q) ==
  \/ \E k \in IntFilterKeys \cap DOMAIN q : ParseInt(Some(q[k])).nan
  \/ \E k \in FloatFilterKeys \cap DOMAIN q : ParseFloat(Some(q[k])).nan

\* C9: a request with a numeric filter that does not parse issues no store
\* statement and is answered with a 4xx status; NaN is never bound.
C9_MalformedNumericRejected ==
  (MalformedNumeric(query) /\ fpc \notin {"new", "built"}) =>
    /\ issued = <<>>
    /\ fpc = "done" => status \in 400..499

\* C10: parseLimit returns an integer in [1, 10000]: 100 when the input is
\* absent, empty, unparseable or "0"; 10000 above 10000; 1 for a negative
\* parsed value; the parsed integer otherwise.
C10_ParseLimitClamped ==
  limitDone =>
    LET p == ParseInt(limitStr) IN
      /\ limitResult \in 1..10000
      /\ (p.nan \/ p.v = 0) => limitResult = 100
      /\ (~p.nan /\ p.v > 10000) => limitResult = 10000
      /\ (~p.nan /\ p.v < 0) => limitResult = 1
      /\ (~p.nan /\ p.v \in 1..10000) => limitResult = p.v
      /\ limitStr \in {Undefined, Some(<<>>), Some(<<"0">>), Some(<<"a">>)}
           => limitResult = 100
      /\ limitStr = Some(<<"9", "9", "9", "9", "9", "9">>) => limitResult = 10000
      /\ limitStr = Some(<<"-", "5">>) => limitResult = 1
      /\ limitStr = Some(<<"5", "0">>) => limitResult = 50

C10_Witness ==
  /\ limitDone
  /\ limitStr = Some(<<"-", "5">>)
  /\ limitResult = 1

\* ------------------------------------------------------- paginated list
\* Rows of the store that match one request's filters, at most.
MaxTotal == 3

\* req.query.limit and req.query.offset of a paginated request.
PageLimits == {Undefined, Some(<<"0">>), Some(<<"1">>), Some(<<"2">>), Some(<<"a">>)}
PageOffsets ==
  {Undefined, Some(<<"0">>), Some(<<"1">>), Some(<<"2">>), Some(<<"3">>),
   Some(<<"-", "1">>), Some(<<"a">>)}

InitPage ==
  /\ InitStream /\ RestFilter /\ RestLimit /\ RestAuth /\ RestStart
  /\ pgTotal \in 0..MaxTotal
  /\ pgLimitStr \in PageLimits
  /\ pgOffsetStr \in PageOffsets
  /\ ppc = "new"
  /\ pgPlaces = 0
  /\ pgResp = NoResponse

\* The store's answer to `... ORDER BY id LIMIT limit OFFSET offset` over
\* `total` matching rows.
StoreRows(total, limit, offset) == Max(0, Min(limit, total - offset))

\* Variant of hasMore: the comparison is not strict.
hasMoreInclusive(offset, n, total) == offset + n <= total

\* places.js:61
hasMore(offset, n, total) == offset + n < total

\* places.js:56-62
Pagination(limit, offset, n, total) ==
  [status |-> 200, limit |-> limit, offset |-> offset, count |-> n,
   total |-> total, has_more |-> hasMore(offset, n, total)]

\* GET /: getPlaces resolves with the page (places.js:44-48).  The store
\* rejects a negative OFFSET.
PageGetPlaces ==
  /\ ppc = "new"
  /\ parseOffset(pgOffsetStr).v >= 0
  /\ pgPlaces' = StoreRows(pgTotal, parseLimit(pgLimitStr), parseOffset(pgOffsetStr).v)
  /\ ppc' = "countPlaces"
  /\ UNCHANGED <<pgTotal, pgLimitStr, pgOffsetStr, pgResp, streamVars, filterVars, limitVars, authVars, startVars>>

\* GET /: countPlaces resolves and the response is sent (places.js:51-64).
PageRespond ==
  /\ ppc = "countPlaces"
  /\ pgResp' = Pagination(parseLimit(pgLimitStr), parseOffset(pgOffsetStr).v,
                          pgPlaces, pgTotal)
  /\ ppc' = "done"
  /\ UNCHANGED <<pgTotal, pgLimitStr, pgOffsetStr, pgPlaces, streamVars, filterVars, limitVars, authVars, startVars>>

\* GET /: a statement is rejected and the catch answers 500 (places.js:65-72).
PageStoreError ==
  /\ ppc \in {"new", "countPlaces"}
  /\ pgResp' = [NoResponse EXCEPT !.status = 500]
  /\ ppc' = "done"
  /\ UNCHANGED <<pgTotal, pgLimitStr, pgOffsetStr, pgPlaces, streamVars, filterVars, limitVars, authVars, startVars>>

NextPage ==
  \/ PageGetPlaces
  \/ PageRespond
  \/ PageStoreError

\* C11: in every successful paginated response has_more is true exactly when
\* offset + count < total, count being the rows returned and total the
\* matching rows; at offset = total - 1 with limit = 1 has_more is false.
C11_HasMore ==
  pgResp.status = 200 =>
    /\ pgResp.count = pgPlaces
    /\ pgResp.total = pgTotal
    /\ pgResp.has_more <=> (pgResp.offset + pgResp.count < pgResp.total)
    /\ (pgResp.offset = pgResp.total - 1 /\ pgResp.limit = 1) => ~pgResp.has_more

C11_Witness ==
  /\ pgResp.status = 200
  /\ pgResp.total = MaxTotal
  /\ pgResp.offset = pgResp.total - 1
  /\ pgResp.limit = 1
  /\ pgResp.count = 1
  /\ ~pgResp.has_more

\* --------------------------------------------------- middleware chain
\* Strings are sequences of characters.
Bearer == <<"B", "e", "a", "r", "e", "r">>
Space == <<" ">>

\* String.prototype.split(' ')
RECURSIVE Split(_)
Split(s) ==
  IF \A i \in 1..Len(s) : s[i] # " " THEN <<s>>
  ELSE LET i == CHOOSE j \in 1..Len(s) :
                  s[j] = " " /\ \A k \in 1..(j - 1) : s[k] # " "
       IN <<SubSeq(s, 1, i - 1)>> \o Split(SubSeq(s, i + 1, Len(s)))

\* Outcome of a middleware: the status it answers, or 0 when it calls next().
CallsNext == 0

\* Variant of authenticate: the token is not compared with API_TOKEN.
authenticateNoCompare(authHeader, API_TOKEN) ==
  IF ~TruthyString(authHeader) THEN 401
  ELSE LET parts == Split(authHeader[1]) IN
       IF Len(parts) # 2 \/ parts[1] # Bearer THEN 401
       ELSE IF ~TruthyString(API_TOKEN) THEN 500
       ELSE CallsNext

\* database.js:248-289
authenticate(authHeader, API_TOKEN) ==
  IF ~TruthyString(authHeader) THEN 401
  ELSE LET parts == Split(authHeader[1]) IN
       IF Len(parts) # 2 \/ parts[1] # Bearer THEN 401
       ELSE IF ~TruthyString(API_TOKEN) THEN 500
       ELSE IF parts[2] # API_TOKEN[1] THEN 401
       ELSE CallsNext

\* Mount points and routes, as path segments.
HealthPath == <<"health">>
InfoPath == <<>>
PlacesMount == <<"api", "v1", "places">>
StatsMount == <<"api", "v1", "stats">>
PlacesRoutes == {<<>>, <<"count">>, <<"stream">>, <<"stats">>}

\* app.use(prefix, ...) takes every path under the prefix.
Under(prefix, path) ==
  Len(path) >= Len(prefix) /\ SubSeq(path, 1, Len(prefix)) = prefix
Below(prefix, path) == SubSeq(path, Len(prefix) + 1, Len(path))

Protected(path) == Under(PlacesMount, path) \/ Under(StatsMount, path)

Paths ==
  {HealthPath, InfoPath, <<"x">>, StatsMount, PlacesMount \o <<"x">>}
    \cup {PlacesMount \o r : r \in PlacesRoutes}

Secrets == {<<"s">>, <<"t", "u">>}
AuthHeaders ==
  {Undefined, Some(<<>>), Some(Bearer), Some(Bearer \o Space),
   Some(<<"s">>), Some(<<"b">> \o Tail(Bearer) \o Space \o <<"s">>),
   Some(<<"B", "a", "s", "i", "c">> \o Space \o <<"s">>),
   Some(Bearer \o Space \o Space \o <<"s">>),
   Some(Bearer \o Space \o <<"s">> \o Space),
   Some(Bearer \o Space \o <<"s", "t">>),
   Some(Bearer \o Space \o <<"t">>)}
    \cup {Some(Bearer \o Space \o k) : k \in Secrets}

InitAuth ==
  /\ InitStream /\ RestFilter /\ RestLimit /\ RestPage /\ RestStart
  /\ apiToken \in {Undefined, Some(<<>>)} \cup {Some(k) : k \in Secrets}
  /\ rateMax \in {1, 2}
  /\ hits = 0
  /\ apc = "idle"
  /\ reqPath = <<>>
  /\ reqAuth = Undefined
  /\ aStatus = 0
  /\ aStore = FALSE
  /\ aHandler = "none"

AuthFrame == <<streamVars, filterVars, limitVars, pageVars, startVars>>

\* A request arrives (GET).
Arrive ==
  /\ apc \in {"idle", "done"}
  /\ \E p \in Paths, h \in AuthHeaders : reqPath' = p /\ reqAuth' = h
  /\ apc' = "limiter"
  /\ aStatus' = 0
  /\ aStore' = FALSE
  /\ aHandler' = "none"
  /\ UNCHANGED <<apiToken, rateMax, hits, AuthFrame>>

\* part_000:23-35: the request is counted; over max it is answered 429.
\* Counts above max + 1 are not told apart.
Limiter ==
  /\ apc = "limiter"
  /\ hits' = Min(hits + 1, rateMax + 1)
  /\ IF hits + 1 > rateMax
     THEN aStatus' = 429 /\ apc' = "done"
     ELSE aStatus' = aStatus /\ apc' = "route"
  /\ UNCHANGED <<apiToken, rateMax, reqPath, reqAuth, aStore, aHandler, AuthFrame>>

\* The limiter's window (windowMs) expires.
WindowReset ==
  /\ hits > 0
  /\ hits' = 0
  /\ UNCHANGED <<apiToken, rateMax, apc, reqPath, reqAuth, aStatus, aStore, aHandler, AuthFrame>>

\* part_000:38-46: /health runs testConnection and answers 200 or 503.
Health ==
  /\ apc = "route"
  /\ reqPath = HealthPath
  /\ aHandler' = "health"
  /\ aStore' = TRUE
  /\ \E connected \in BOOLEAN : aStatus' = IF connected THEN 200 ELSE 503
  /\ apc' = "done"
  /\ UNCHANGED <<apiToken, rateMax, hits, reqPath, reqAuth, AuthFrame>>

\* part_000:49-63
Info ==
  /\ apc = "route"
  /\ reqPath = InfoPath
  /\ aHandler' = "info"
  /\ aStatus' = 200
  /\ apc' = "done"
  /\ UNCHANGED <<apiToken, rateMax, hits, reqPath, reqAuth, aStore, AuthFrame>>

\* part_000:66-67: authenticate runs first on both protected mounts.
Authenticate ==
  /\ apc = "route"
  /\ Protected(reqPath)
  /\ LET r == authenticate(reqAuth, apiToken) IN
     IF r = CallsNext
     THEN aStatus' = aStatus /\ apc' = "authenticated"
     ELSE aStatus' = r /\ apc' = "done"
  /\ UNCHANGED <<apiToken, rateMax, hits, reqPath, reqAuth, aStore, aHandler, AuthFrame>>

\* part_000:66: a route of the places router runs its store operation and
\* answers 200, or 500 from its catch.
PlacesHandler ==
  /\ apc = "authenticated"
  /\ Under(PlacesMount, reqPath)
  /\ Below(PlacesMount, reqPath) \in PlacesRoutes
  /\ aHandler' = "places"
  /\ aStore' = TRUE
  /\ \E s \in {200, 500} : aStatus' = s
  /\ apc' = "done"
  /\ UNCHANGED <<apiToken, rateMax, hits, reqPath, reqAuth, AuthFrame>>

\* part_000:67-82
StatsHandler ==
  /\ apc = "authenticated"
  /\ Under(StatsMount, reqPath)
  /\ aHandler' = "stats"
  /\ aStore' = TRUE
  /\ \E s \in {200, 500} : aStatus' = s
  /\ apc' = "done"
  /\ UNCHANGED <<apiToken, rateMax, hits, reqPath, reqAuth, AuthFrame>>

\* part_000:85-91: no route took the request.
NotFound ==
  /\ \/ apc = "route" /\ reqPath \notin {HealthPath, InfoPath} /\ ~Protected(reqPath)
     \/ /\ apc = "authenticated"
        /\ Under(PlacesMount, reqPath)
        /\ Below(PlacesMount, reqPath) \notin PlacesRoutes
  /\ aHandler' = "notfound"
  /\ aStatus' = 404
  /\ apc' = "done"
  /\ UNCHANGED <<apiToken, rateMax, hits, reqPath, reqAuth, aStore, AuthFrame>>

NextAuth ==
  \/ Arrive
  \/ Limiter
  \/ WindowReset
  \/ Health
  \/ Info
  \/ Authenticate
  \/ PlacesHandler
  \/ StatsHandler
  \/ NotFound

\* The request carries a bearer credential equal to the configured secret.
CredentialMatches ==
  TruthyString(apiToken) /\ reqAuth = Some(Bearer \o Space \o apiToken[1])

MaxRequests == 2

\* part_000:106
Retries == 5

\* database.js:214-222: true when SELECT 1 succeeded, false from the catch.
testConnection(queryOk) == IF queryOk THEN TRUE ELSE FALSE

\* Variant of LoopCond: the loop also runs with no retries left.
LoopCondInclusive(r, connected) == r >= 0 /\ ~connected

\* part_000:108: while (retries > 0 && !dbConnected)
LoopCond(r, connected) == r > 0 /\ ~connected

InitStart ==
  /\ InitStream /\ RestFilter /\ RestLimit /\ RestPage /\ RestAuth
  /\ dbUp \in BOOLEAN
  /\ retries = Retries
  /\ dbConnected = FALSE
  /\ spc = "loop"
  /\ tests = 0
  /\ listening = FALSE
  /\ exitCode = -1
  /\ answered = 0
  /\ refused = 0

StartFrame == <<streamVars, filterVars, limitVars, pageVars, authVars>>

\* part_000:108-109: the loop condition holds and testConnection is called.
StartTest ==
  /\ spc = "loop"
  /\ LoopCond(retries, dbConnected)
  /\ tests' = tests + 1
  /\ spc' = "testing"
  /\ UNCHANGED <<dbUp, retries, dbConnected, listening, exitCode, answered, refused, StartFrame>>

\* part_000:109-116: testConnection resolves; on failure retries-- and, with
\* retries left, the 5 s sleep starts.
TestResolve ==
  /\ spc = "testing"
  /\ dbConnected' = testConnection(dbUp)
  /\ IF dbConnected'
     THEN retries' = retries /\ spc' = "loop"
     ELSE /\ retries' = retries - 1
          /\ spc' = IF retries' > 0 THEN "sleeping" ELSE "loop"
  /\ UNCHANGED <<dbUp, tests, listening, exitCode, answered, refused, StartFrame>>

\* part_000:114: the timer fires.
SleepDone ==
  /\ spc = "sleeping"
  /\ spc' = "loop"
  /\ UNCHANGED <<dbUp, retries, dbConnected, tests, listening, exitCode, answered, refused, StartFrame>>

\* part_000:119-122: the loop is left with no connection: process.exit(1).
StartExit ==
  /\ spc = "loop"
  /\ ~LoopCond(retries, dbConnected)
  /\ ~dbConnected
  /\ exitCode' = 1
  /\ spc' = "exited"
  /\ UNCHANGED <<dbUp, retries, dbConnected, tests, listening, answered, refused, StartFrame>>

\* part_000:124-130: the loop is left connected: app.listen().
StartListen ==
  /\ spc = "loop"
  /\ ~LoopCond(retries, dbConnected)
  /\ dbConnected
  /\ listening' = TRUE
  /\ spc' = "listening"
  /\ UNCHANGED <<dbUp, retries, dbConnected, tests, exitCode, answered, refused, StartFrame>>

\* The steps of start().
StartStep ==
  \/ StartTest
  \/ TestResolve
  \/ SleepDone
  \/ StartExit
  \/ StartListen

\* The store goes down or comes back.
StoreToggle ==
  /\ dbUp' = ~dbUp
  /\ UNCHANGED <<retries, dbConnected, spc, tests, listening, exitCode, answered, refused, StartFrame>>

\* A client connects to the port: accepted once app.listen() ran, refused
\* before that and after exit.
Connect ==
  /\ IF listening
     THEN answered < MaxRequests /\ answered' = answered + 1 /\ refused' = refused
     ELSE refused < MaxRequests /\ refused' = refused + 1 /\ answered' = answered
  /\ UNCHANGED <<dbUp, retries, dbConnected, spc, tests, listening, exitCode, StartFrame>>

NextStart ==
  \/ StartStep
  \/ StoreToggle
  \/ Connect

StartDone == spc \in {"listening", "exited"}

StartSafe ==
  /\ tests <= Retries
  /\ listening => dbConnected /\ tests >= 1
  /\ answered > 0 => listening
  /\ (tests = Retries /\ ~dbConnected /\ spc \notin {"testing", "sleeping"}) =>
       ~listening /\ (StartDone => spc = "exited")
  /\ spc = "exited" =>
       tests = Retries /\ exitCode = 1 /\ ~listening /\ answered = 0
  /\ exitCode \in {-1, 1}

\* C14: start() tests store connectivity at most 5 times; it listens only
\* after a test succeeded; when all 5 tests failed it exits with status 1
\* and never listens; and the startup loop always terminates.
C14_StartupBoundedAndTerminates == [] StartSafe /\ <> StartDone

C14_Witness ==
  /\ spc = "exited"
  /\ tests = Retries
  /\ exitCode = 1
  /\ ~listening
  /\ refused > 0

\* ------------------------------------------------------- specifications
\* The streaming export and the pool.
Init == InitStream /\ RestFilter /\ RestLimit /\ RestPage /\ RestAuth /\ RestStart

Next == NextStream

Spec == Init /\ [][Next]_vars

\* Streams and pool with the output transport observed.
SpecFlow == Init /\ [][NextFlow]_vars

\* One request (or one direct buildWhereClause call) with a bounded query.
SpecFilter == InitFilter /\ [][NextFilter]_vars

\* One parseLimit call.
SpecLimit == InitLimit /\ [][NextLimit]_vars

\* One paginated list request against a store of pgTotal matching rows.
SpecPage == InitPage /\ [][NextPage]_vars

\* HTTP requests through the limiter, authenticate and the routes.
SpecAuth == InitAuth /\ [][NextAuth]_vars

\* start(): the event loop keeps running the pending step of start() and
\* testConnection always settles; the store and the clients are free.
SpecStart == InitStart /\ [][NextStart]_vars /\ WF_vars(StartStep)

====
